---- MODULE Spec2Model ----
(***************************************************************************)
(* Trade enrichment of sf-getstarted-elt.                                  *)
(*                                                                         *)
(*  - calculate_realized_pnl (python/sp_transform_trades.py), the pure     *)
(*    P&L function, checked under SpecPnl;                                 *)
(*  - main (python/sp_transform_trades.py), the stored procedure that      *)
(*    reads TRADES_RAW_STREAM, left-joins POSITIONS_RAW and appends to     *)
(*    STAGE.TRADES_ENRICHED, checked under Spec.                           *)
(*                                                                         *)
(* Money and quantities are integers (a fixed-scale representation).       *)
(* Python's None and SQL's NULL are the empty sequence, a present value v  *)
(* is the one-element sequence <<v>>.                                      *)
(***************************************************************************)
EXTENDS Integers, Sequences, FiniteSets, Bags, TLC

\* ------------------------------------------------------------------ bounds
\* Largest trade quantity passed to calculate_realized_pnl (0 is included).
MaxQty == 3
\* Largest price and average cost passed to calculate_realized_pnl.
MaxPrice == 3
\* Largest position magnitude passed to calculate_realized_pnl.
MaxPos == 2
\* Most trades ever inserted into TRADES_RAW.
MaxTrades == 2
\* Most rows ever loaded into POSITIONS_RAW.
MaxPositions == 2

\* ------------------------------------------------------- optional values
None == <<>>

Some(v) == <<v>>

IsNone(x) == x = <<>>

Val(x) == x[1]

Min(a, b) == IF a < b THEN a ELSE b

Abs(a) == IF a < 0 THEN -a ELSE a

Sides == {"BUY", "SELL"}

\* Largest num_rows asked of a position generator.
MaxRows == 5

\* Most calls of sp_enrich_trades.main that return between two changes of its inputs.
MaxRebuilds == 2

VARIABLES
    args,       \* the arguments of the current call of calculate_realized_pnl
    ret,        \* its return value <<realized_pnl, is_closing>>
    pnl_pc      \* "call" before the call, "returned" after it, "off" when unused

VARIABLES
    trades_raw,         \* RAW.TRADES_RAW, the table under the change feed
    stream_offset,      \* TRADES_RAW_STREAM: the trades up to this id are consumed
    positions_raw,      \* RAW.POSITIONS_RAW
    trades_enriched,    \* STAGE.TRADES_ENRICHED, the sink
    now,                \* the clock current_timestamp() reads
    pc,                 \* where main is: "idle", "write" or "return"
    row_count,          \* main's local row_count, NoCount before it is set
    outcome             \* how the last call of main ended: "none", "returned", "raised"

VARIABLES
    script_pc,          \* where the main called by the script entry point is
    script_row_count,   \* its local row_count
    script_outcome      \* how its last call ended

VARIABLES
    demo_trades_raw,        \* DEMO_LAB_DB.RAW.TRADES_RAW
    demo_positions_raw,     \* DEMO_LAB_DB.RAW.POSITIONS_RAW
    demo_trades_enriched,   \* DEMO_LAB_DB.STAGE.TRADES_ENRICHED, a bag of rows
    agg_outcome,            \* how the last call of sp_enrich_trades.main ended
    agg_runs                \* calls that returned since its input tables last changed

VARIABLES
    cl_confirm,     \* cleanup.py: whether --confirm was given
    cl_pc,          \* where its main is: "start", "ask", "clean" or "done"
    cl_session,     \* its session: "none", "open" or "closed"
    cl_answer,      \* what Confirm.ask returned: "none", "yes" or "no"
    cl_i,           \* the statement of CleanupPlan it is at
    cl_objects,     \* the objects of the demo that exist
    cl_suspended,   \* the tasks that are suspended
    cl_issued,      \* the statements of CleanupPlan sent to Snowflake
    cl_exit         \* its exit code, None while it runs

VARIABLES
    sv_pc,          \* setup_verify.py: where its main is: "start", "check", "report", "done"
    sv_session,     \* its session: "none", "open" or "closed"
    sv_step,        \* the check function of VerifyPlan main calls next
    sv_all_results, \* all_results, the CheckResults so far
    sv_task_state,  \* the state of each required task in TRADING_LAB_DB.STAGE
    sv_exit         \* its exit code, None while it runs

VARIABLES
    gen_num_rows,   \* generate_positions_data: the num_rows of the call
    gen_pc,         \* where it is: "off", "loop" or "done"
    gen_combo,      \* the (symbol, account_id) of the last draw, None before it
    gen_used,       \* used_combos
    gen_data        \* data, the rows appended so far, as their (symbol, account_id)

pnlVars == <<args, ret, pnl_pc>>

genVars == <<gen_num_rows, gen_pc, gen_combo, gen_used, gen_data>>

verifyVars == <<sv_pc, sv_session, sv_step, sv_all_results, sv_task_state, sv_exit>>

cleanupVars == <<cl_confirm, cl_pc, cl_session, cl_answer, cl_i, cl_objects,
                 cl_suspended, cl_issued, cl_exit>>

utilVars == <<cleanupVars, verifyVars, genVars>>

pipeVars == <<trades_raw, stream_offset, positions_raw, trades_enriched, now,
              pc, row_count, outcome>>

scriptVars == <<script_pc, script_row_count, script_outcome>>

aggVars == <<demo_trades_raw, demo_positions_raw, demo_trades_enriched,
             agg_outcome, agg_runs>>

vars == <<args, ret, pnl_pc, trades_raw, stream_offset, positions_raw,
          trades_enriched, now, pc, row_count, outcome,
          script_pc, script_row_count, script_outcome,
          demo_trades_raw, demo_positions_raw, demo_trades_enriched,
          agg_outcome, agg_runs,
          cl_confirm, cl_pc, cl_session, cl_answer, cl_i, cl_objects,
          cl_suspended, cl_issued, cl_exit,
          sv_pc, sv_session, sv_step, sv_all_results, sv_task_state, sv_exit,
          gen_num_rows, gen_pc, gen_combo, gen_used, gen_data>>

\* --------------------------------------------- calculate_realized_pnl
\* Mutant: the guard tests position_qty only; an absent avg_cost counts as 0.
calculate_realized_pnl_NoCostGuard(side, quantity, price, position_qty, avg_cost) ==
    IF IsNone(position_qty)
    THEN <<0, FALSE>>
    ELSE LET cost == IF IsNone(avg_cost) THEN 0 ELSE Val(avg_cost)
         IN  IF side = "SELL" /\ Val(position_qty) > 0
             THEN <<Min(quantity, Val(position_qty)) * (price - cost), TRUE>>
             ELSE IF side = "BUY" /\ Val(position_qty) < 0
                  THEN <<Min(quantity, Abs(Val(position_qty))) * (cost - price), TRUE>>
                  ELSE <<0, FALSE>>

\* Mutant: the long branch uses the trade quantity, not min(quantity, position_qty).
calculate_realized_pnl_NoMinLong(side, quantity, price, position_qty, avg_cost) ==
    IF IsNone(position_qty) \/ IsNone(avg_cost)
    THEN <<0, FALSE>>
    ELSE IF side = "SELL" /\ Val(position_qty) > 0
         THEN <<quantity * (price - Val(avg_cost)), TRUE>>
         ELSE IF side = "BUY" /\ Val(position_qty) < 0
              THEN <<Min(quantity, Abs(Val(position_qty))) * (Val(avg_cost) - price), TRUE>>
              ELSE <<0, FALSE>>

\* Mutant: the short branch takes price - avg_cost, the long branch's sign.
calculate_realized_pnl_ShortSign(side, quantity, price, position_qty, avg_cost) ==
    IF IsNone(position_qty) \/ IsNone(avg_cost)
    THEN <<0, FALSE>>
    ELSE IF side = "SELL" /\ Val(position_qty) > 0
         THEN <<Min(quantity, Val(position_qty)) * (price - Val(avg_cost)), TRUE>>
         ELSE IF side = "BUY" /\ Val(position_qty) < 0
              THEN <<Min(quantity, Abs(Val(position_qty))) * (price - Val(avg_cost)), TRUE>>
              ELSE <<0, FALSE>>

\* Mutant: a trade counts as closing only when its quantity is positive.
calculate_realized_pnl_QtyClosing(side, quantity, price, position_qty, avg_cost) ==
    IF IsNone(position_qty) \/ IsNone(avg_cost)
    THEN <<0, FALSE>>
    ELSE IF side = "SELL" /\ Val(position_qty) > 0 /\ quantity > 0
         THEN <<Min(quantity, Val(position_qty)) * (price - Val(avg_cost)), TRUE>>
         ELSE IF side = "BUY" /\ Val(position_qty) < 0 /\ quantity > 0
              THEN <<Min(quantity, Abs(Val(position_qty))) * (Val(avg_cost) - price), TRUE>>
              ELSE <<0, FALSE>>

\* Mutant: the long test is position_qty >= 0, so a flat position counts as long.
calculate_realized_pnl_FlatLong(side, quantity, price, position_qty, avg_cost) ==
    IF IsNone(position_qty) \/ IsNone(avg_cost)
    THEN <<0, FALSE>>
    ELSE IF side = "SELL" /\ Val(position_qty) >= 0
         THEN <<Min(quantity, Val(position_qty)) * (price - Val(avg_cost)), TRUE>>
         ELSE IF side = "BUY" /\ Val(position_qty) < 0
              THEN <<Min(quantity, Abs(Val(position_qty))) * (Val(avg_cost) - price), TRUE>>
              ELSE <<0, FALSE>>

\* Mutant: the short branch uses the trade quantity, not min(quantity, abs(position_qty)).
calculate_realized_pnl_NoMinShort(side, quantity, price, position_qty, avg_cost) ==
    IF IsNone(position_qty) \/ IsNone(avg_cost)
    THEN <<0, FALSE>>
    ELSE IF side = "SELL" /\ Val(position_qty) > 0
         THEN <<Min(quantity, Val(position_qty)) * (price - Val(avg_cost)), TRUE>>
         ELSE IF side = "BUY" /\ Val(position_qty) < 0
              THEN <<quantity * (Val(avg_cost) - price), TRUE>>
              ELSE <<0, FALSE>>

\* calculate_realized_pnl(side, quantity, price, position_qty, avg_cost)
\* returns <<realized_pnl, is_closing>>.
calculate_realized_pnl(side, quantity, price, position_qty, avg_cost) ==
    IF IsNone(position_qty) \/ IsNone(avg_cost)
    THEN <<0, FALSE>>
    ELSE IF side = "SELL" /\ Val(position_qty) > 0
         THEN <<Min(quantity, Val(position_qty)) * (price - Val(avg_cost)), TRUE>>
         ELSE IF side = "BUY" /\ Val(position_qty) < 0
              THEN <<Min(quantity, Abs(Val(position_qty))) * (Val(avg_cost) - price), TRUE>>
              ELSE <<0, FALSE>>


\* ------------------------------------------------------------ the tables
Accounts == {"ACCT-001"}

\* The instruments traded; positions are held in the first one only.
Symbols == {"AAPL", "MSFT"}

HeldSymbols == {"AAPL"}

\* Quantity and price of the recorded trades (both > 0): a quantity below and
\* one above the position magnitude, a price above the average cost.
TradeQtys == {1, 3}

TradePrices == {3}

\* The trades the upstream system records: every side and quantity in the
\* held instrument, one trade in the instrument without a position.
TradeKinds ==
    {[side |-> sd, quantity |-> q, symbol |-> sy] :
        sd \in Sides, q \in TradeQtys, sy \in HeldSymbols}
    \cup {[side |-> "BUY", quantity |-> 1, symbol |-> "MSFT"]}

\* The position rows loaded: long, short, and long with a NULL AVG_COST
\* (the column is nullable).
PositionKinds ==
    {[quantity |-> 2, avg_cost |-> Some(2)],
     [quantity |-> -2, avg_cost |-> Some(2)],
     [quantity |-> 2, avg_cost |-> None]}

NoCount == -1

\* A row of TRADES_RAW as the upstream execution system inserts it.
Trade(id, side, quantity, price, account_id, symbol) ==
    [trade_id |-> id, side |-> side, quantity |-> quantity, price |-> price,
     account_id |-> account_id, symbol |-> symbol]

\* trades_stream: the rows of TRADES_RAW added since the stream was last consumed.
StreamRows == {t \in trades_raw : t.trade_id > stream_offset}

\* advance(): the offset after a statement that consumed the stream commits.
StreamAdvance == Cardinality(trades_raw)

\* --------------------------------------------------- main: the query
\* positions.select(ACCOUNT_ID, SYMBOL, QUANTITY as POSITION_QTY, AVG_COST).distinct()
LatestPositions ==
    {[account_id |-> p.account_id, symbol |-> p.symbol,
      position_qty |-> Some(p.quantity), avg_cost |-> p.avg_cost] : p \in positions_raw}

\* The rows of latest_positions the join condition pairs with trade t.
JoinMatches(t) ==
    {p \in LatestPositions : t.account_id = p.account_id /\ t.symbol = p.symbol}

\* The REALIZED_PNL column: a CASE over SIDE and POSITION_QTY; a NULL
\* POSITION_QTY makes both WHEN conditions NULL, a NULL AVG_COST makes the
\* chosen product NULL.
SqlRealizedPnl(side, quantity, price, position_qty, avg_cost) ==
    IF side = "SELL" /\ ~IsNone(position_qty) /\ Val(position_qty) > 0
    THEN IF IsNone(avg_cost) THEN None
         ELSE Some((price - Val(avg_cost))
                   * (IF quantity < Val(position_qty) THEN quantity
                                                      ELSE Val(position_qty)))
    ELSE IF side = "BUY" /\ ~IsNone(position_qty) /\ Val(position_qty) < 0
         THEN IF IsNone(avg_cost) THEN None
              ELSE Some((Val(avg_cost) - price)
                        * (IF quantity < Abs(Val(position_qty)) THEN quantity
                                                                ELSE Abs(Val(position_qty))))
         ELSE Some(0)

\* The IS_CLOSING column.
SqlIsClosing(side, position_qty) ==
    IF ~IsNone(position_qty)
       /\ \/ side = "SELL" /\ Val(position_qty) > 0
          \/ side = "BUY" /\ Val(position_qty) < 0
    THEN TRUE
    ELSE FALSE

\* Mutant: NOTIONAL_VALUE is special-cased by side, negative for a SELL.
EnrichedRow_SignedNotional(t, position_qty, avg_cost, processed_at) ==
    [trade_id |-> t.trade_id, symbol |-> t.symbol, side |-> t.side,
     quantity |-> t.quantity, price |-> t.price,
     notional_value |-> IF t.side = "SELL" THEN 0 - t.quantity * t.price
                                           ELSE t.quantity * t.price,
     account_id |-> t.account_id,
     position_qty |-> position_qty, avg_cost |-> avg_cost,
     realized_pnl |-> SqlRealizedPnl(t.side, t.quantity, t.price, position_qty, avg_cost),
     is_closing |-> SqlIsClosing(t.side, position_qty),
     processed_at |-> processed_at]

\* The select list of the join, for trade t and the joined position columns.
EnrichedRow(t, position_qty, avg_cost, processed_at) ==
    [trade_id |-> t.trade_id, symbol |-> t.symbol, side |-> t.side,
     quantity |-> t.quantity, price |-> t.price,
     notional_value |-> t.quantity * t.price,
     account_id |-> t.account_id,
     position_qty |-> position_qty, avg_cost |-> avg_cost,
     realized_pnl |-> SqlRealizedPnl(t.side, t.quantity, t.price, position_qty, avg_cost),
     is_closing |-> SqlIsClosing(t.side, position_qty),
     processed_at |-> processed_at]

\* Mutant: how="inner", a trade without a matching position row gives no row.
JoinRows_InnerJoin(t, processed_at) ==
    {EnrichedRow(t, p.position_qty, p.avg_cost, processed_at) : p \in JoinMatches(t)}

\* Mutant: the trades of a batch are reconciled one after the other, each
\* against the position as the earlier trades of the batch on its key left it.
JoinRows_RunningPosition(t, processed_at) ==
    LET earlier == {u \in StreamRows : /\ u.trade_id < t.trade_id
                                       /\ u.account_id = t.account_id
                                       /\ u.symbol = t.symbol}
        bought == {u \in earlier : u.side = "BUY"}
        sold == {u \in earlier : u.side = "SELL"}
        qtyOf(us, q) == q * Cardinality({u \in us : u.quantity = q})
        net == qtyOf(bought, 1) + qtyOf(bought, 3) - qtyOf(sold, 1) - qtyOf(sold, 3)
    IN  IF JoinMatches(t) = {}
        THEN {EnrichedRow(t, None, None, processed_at)}
        ELSE {EnrichedRow(t, Some(Val(p.position_qty) + net), p.avg_cost, processed_at) :
                 p \in JoinMatches(t)}

\* The rows of the left join for one trade: one per matching position row,
\* or one with NULL position columns when none matches.
JoinRows(t, processed_at) ==
    IF JoinMatches(t) = {}
    THEN {EnrichedRow(t, None, None, processed_at)}
    ELSE {EnrichedRow(t, p.position_qty, p.avg_cost, processed_at) : p \in JoinMatches(t)}

\* The DataFrame enriched, evaluated against the tables as they are now.
Enriched(processed_at) == UNION {JoinRows(t, processed_at) : t \in StreamRows}

\* ------------------------------------------------ the external writers
\* The upstream execution system records a trade.
InsertTrade ==
    /\ Cardinality(trades_raw) < MaxTrades
    /\ \E k \in TradeKinds, price \in TradePrices, account_id \in Accounts :
          trades_raw' = trades_raw \cup
              {Trade(Cardinality(trades_raw) + 1, k.side, k.quantity, price,
                     account_id, k.symbol)}
    /\ UNCHANGED <<stream_offset, positions_raw, trades_enriched, now,
                   pc, row_count, outcome>>
    /\ UNCHANGED <<pnlVars, scriptVars, aggVars>>
    /\ UNCHANGED utilVars

\* The position-keeping process loads a position row.
LoadPosition ==
    /\ Cardinality(positions_raw) < MaxPositions
    /\ \E account_id \in Accounts, symbol \in HeldSymbols, k \in PositionKinds :
          positions_raw' = positions_raw \cup
              {[account_id |-> account_id, symbol |-> symbol, quantity |-> k.quantity,
                avg_cost |-> k.avg_cost, updated_at |-> Cardinality(positions_raw) + 1]}
    /\ UNCHANGED <<trades_raw, stream_offset, trades_enriched, now,
                   pc, row_count, outcome>>
    /\ UNCHANGED <<pnlVars, scriptVars, aggVars>>
    /\ UNCHANGED utilVars

\* --------------------------------------------------- main: the steps
\* Mutant: the branch is taken on row_count >= 0, so an empty count still goes on to write.
Count_WritesOnZero ==
    /\ pc = "idle"
    /\ row_count' = Cardinality(Enriched(now))
    /\ pc' = IF row_count' >= 0 THEN "write" ELSE "return"
    /\ outcome' = "none"
    /\ UNCHANGED <<trades_raw, stream_offset, positions_raw, trades_enriched, now>>
    /\ UNCHANGED <<pnlVars, scriptVars, aggVars>>
    /\ UNCHANGED utilVars

\* Mutant: the count is taken by a statement that consumes the stream.
Count_ConsumesStream ==
    /\ pc = "idle"
    /\ row_count' = Cardinality(Enriched(now))
    /\ pc' = IF row_count' > 0 THEN "write" ELSE "return"
    /\ outcome' = "none"
    /\ stream_offset' = StreamAdvance
    /\ UNCHANGED <<trades_raw, positions_raw, trades_enriched, now>>
    /\ UNCHANGED <<pnlVars, scriptVars, aggVars>>
    /\ UNCHANGED utilVars

\* The task calls main: the DataFrames are built (nothing is executed), then
\* row_count = enriched.count() runs the query; a query consumes nothing.
Count ==
    /\ pc = "idle"
    /\ row_count' = Cardinality(Enriched(now))
    /\ pc' = IF row_count' > 0 THEN "write" ELSE "return"
    /\ outcome' = "none"
    /\ UNCHANGED <<trades_raw, stream_offset, positions_raw, trades_enriched, now>>
    /\ UNCHANGED <<pnlVars, scriptVars, aggVars>>
    /\ UNCHANGED utilVars

\* enriched.count() raises (the feed or the position table is unavailable).
CountFails ==
    /\ pc = "idle"
    /\ pc' = "idle"
    /\ row_count' = NoCount
    /\ outcome' = "raised"
    /\ UNCHANGED <<trades_raw, stream_offset, positions_raw, trades_enriched, now>>
    /\ UNCHANGED <<pnlVars, scriptVars, aggVars>>
    /\ UNCHANGED utilVars

\* Mutant: the rows are written trade by trade, and the statement consumes the
\* stream after the first trade's rows.
Write_FirstTradeOnly ==
    /\ pc = "write"
    /\ \E t \in StreamRows :
          trades_enriched' = trades_enriched \cup JoinRows(t, now + 1)
    /\ stream_offset' = StreamAdvance
    /\ now' = now + 1
    /\ pc' = "return"
    /\ UNCHANGED <<trades_raw, positions_raw, row_count, outcome>>
    /\ UNCHANGED <<pnlVars, scriptVars, aggVars>>
    /\ UNCHANGED utilVars

\* Mutant: mode("overwrite"), the statement replaces the table by the batch.
Write_Overwrite ==
    /\ pc = "write"
    /\ trades_enriched' = Enriched(now + 1)
    /\ stream_offset' = StreamAdvance
    /\ now' = now + 1
    /\ pc' = "return"
    /\ UNCHANGED <<trades_raw, positions_raw, row_count, outcome>>
    /\ UNCHANGED <<pnlVars, scriptVars, aggVars>>
    /\ UNCHANGED utilVars

\* enriched.write.mode("append").save_as_table(...): one INSERT ... SELECT that
\* evaluates the query again, appends its rows and consumes the stream.
Write ==
    /\ pc = "write"
    /\ trades_enriched' = trades_enriched \cup Enriched(now + 1)
    /\ stream_offset' = StreamAdvance
    /\ now' = now + 1
    /\ pc' = "return"
    /\ UNCHANGED <<trades_raw, positions_raw, row_count, outcome>>
    /\ UNCHANGED <<pnlVars, scriptVars, aggVars>>
    /\ UNCHANGED utilVars

\* Mutant: the failed append has already consumed the stream.
WriteFails_ConsumesStream ==
    /\ pc = "write"
    /\ pc' = "idle"
    /\ outcome' = "raised"
    /\ stream_offset' = StreamAdvance
    /\ UNCHANGED <<trades_raw, positions_raw, trades_enriched, now, row_count>>
    /\ UNCHANGED <<pnlVars, scriptVars, aggVars>>
    /\ UNCHANGED utilVars

\* Mutant: the exception of the append is swallowed and main goes on to its return.
WriteFails_Swallowed ==
    /\ pc = "write"
    /\ pc' = "return"
    /\ UNCHANGED <<trades_raw, stream_offset, positions_raw, trades_enriched, now,
                   row_count, outcome>>
    /\ UNCHANGED <<pnlVars, scriptVars, aggVars>>
    /\ UNCHANGED utilVars

\* save_as_table raises: the statement is rolled back as a whole.
WriteFails ==
    /\ pc = "write"
    /\ pc' = "idle"
    /\ outcome' = "raised"
    /\ UNCHANGED <<trades_raw, stream_offset, positions_raw, trades_enriched, now,
                   row_count>>
    /\ UNCHANGED <<pnlVars, scriptVars, aggVars>>
    /\ UNCHANGED utilVars

\* return f"TRADES_ENRICHED: {row_count} rows processed": the status string
\* carries row_count, which keeps its value until the next call.
Return ==
    /\ pc = "return"
    /\ pc' = "idle"
    /\ outcome' = "returned"
    /\ UNCHANGED <<trades_raw, stream_offset, positions_raw, trades_enriched, now, row_count>>
    /\ UNCHANGED <<pnlVars, scriptVars, aggVars>>
    /\ UNCHANGED utilVars

\* The arguments held while calculate_realized_pnl is not called.
NoArgs == [side |-> "BUY", quantity |-> 0, price |-> 1,
           position_qty |-> None, avg_cost |-> None]

\* ------------------------------------------------ utils/cleanup.py
\* The statements of the cleanup functions in the order main calls them:
\* per task an ALTER ... SUSPEND and a DROP, then one DROP per object.
CleanupPlan ==
    << [verb |-> "ALTER", kind |-> "TASK", name |-> "TASK_PUBLISH_CURATED"],
       [verb |-> "DROP", kind |-> "TASK", name |-> "TASK_PUBLISH_CURATED"],
       [verb |-> "ALTER", kind |-> "TASK", name |-> "TASK_TRANSFORM_TRADES"],
       [verb |-> "DROP", kind |-> "TASK", name |-> "TASK_TRANSFORM_TRADES"],
       [verb |-> "ALTER", kind |-> "TASK", name |-> "TASK_UPDATE_POSITIONS"],
       [verb |-> "DROP", kind |-> "TASK", name |-> "TASK_UPDATE_POSITIONS"],
       [verb |-> "DROP", kind |-> "STREAM", name |-> "TRADES_RAW_STREAM"],
       [verb |-> "DROP", kind |-> "STREAM", name |-> "MARKET_EVENTS_RAW_STREAM"],
       [verb |-> "DROP", kind |-> "STREAM", name |-> "POSITIONS_RAW_STREAM"],
       [verb |-> "DROP", kind |-> "DATABASE", name |-> "TRADING_LAB_DB"],
       [verb |-> "DROP", kind |-> "WAREHOUSE", name |-> "TRADING_INGEST_WH"],
       [verb |-> "DROP", kind |-> "WAREHOUSE", name |-> "TRADING_TRANSFORM_WH"],
       [verb |-> "DROP", kind |-> "WAREHOUSE", name |-> "TRADING_ANALYTICS_WH"],
       [verb |-> "DROP", kind |-> "ROLE", name |-> "TRADING_LAB_ROLE"],
       [verb |-> "DROP", kind |-> "ROLE", name |-> "DBT_TRADING_ROLE"],
       [verb |-> "DROP", kind |-> "STORAGE INTEGRATION", name |-> "TRADING_S3_INT"],
       [verb |-> "DROP", kind |-> "API INTEGRATION", name |-> "TRADING_GIT_INT"] >>

\* The objects the statements name.
DemoObjects == {CleanupPlan[i].name : i \in 1..Len(CleanupPlan)}

\* The tasks and streams live in TRADING_LAB_DB: DROP DATABASE ... CASCADE
\* removes them with it.
InDatabase == {CleanupPlan[i].name : i \in {j \in 1..Len(CleanupPlan) :
                    CleanupPlan[j].kind \in {"TASK", "STREAM", "DATABASE"}}}

\* cleanup.py was not run: every object of the demo exists, the tasks run.
CleanupInit ==
    /\ cl_confirm = FALSE
    /\ cl_pc = "start"
    /\ cl_session = "none"
    /\ cl_answer = "none"
    /\ cl_i = 1
    /\ cl_objects = DemoObjects
    /\ cl_suspended = {}
    /\ cl_issued = {}
    /\ cl_exit = None

\* ------------------------------------------- utils/setup_verify.py
\* The check functions in the order main calls them, with the number of
\* CheckResults each gives and whether it runs one query for all its items
\* or one query per item.
VerifyPlan ==
    << [check |-> "database", items |-> 1, per_item |-> FALSE],
       [check |-> "schemas", items |-> 4, per_item |-> FALSE],
       [check |-> "warehouses", items |-> 3, per_item |-> FALSE],
       [check |-> "tables", items |-> 7, per_item |-> TRUE],
       [check |-> "streams", items |-> 3, per_item |-> FALSE],
       [check |-> "tasks", items |-> 3, per_item |-> FALSE],
       [check |-> "data", items |-> 3, per_item |-> TRUE] >>

\* required_tasks of check_tasks.
RequiredTasks ==
    <<"TASK_TRANSFORM_TRADES", "TASK_PUBLISH_CURATED", "TASK_UPDATE_POSITIONS">>

\* The states SHOW TASKS reports for a task, "absent" for a task it does not list.
TaskStates == {"started", "suspended", "absent"}

\* A CheckResult: the check function, the item, passed, and the kind of details.
CheckResult(check, item, passed, details) ==
    [check |-> check, item |-> item, passed |-> passed, details |-> details]

\* setup_verify.py was not run; the tasks are in some state.
VerifyInit ==
    /\ sv_pc = "start"
    /\ sv_session = "none"
    /\ sv_step = 1
    /\ sv_all_results = <<>>
    /\ sv_task_state = [i \in 1..Len(RequiredTasks) |-> "started"]
    /\ sv_exit = None

\* ------------------------------- data-samples: the position generators
\* SYMBOLS and ACCOUNTS, cut down to two each.
GenSymbols == {"AAPL", "MSFT"}

GenAccounts == {"ACCT-0008", "ACCT-0012"}

\* The (symbol, account_id) pairs random.choice can give.
GenCombos == GenSymbols \X GenAccounts

\* No position generator is running.
GenInit ==
    /\ gen_num_rows = 0
    /\ gen_pc = "off"
    /\ gen_combo = None
    /\ gen_used = {}
    /\ gen_data = <<>>

UtilInit == CleanupInit /\ VerifyInit /\ GenInit

\* No call through the script entry point has been made.
ScriptInit ==
    /\ script_pc = "idle"
    /\ script_row_count = NoCount
    /\ script_outcome = "none"

\* The tables of DEMO_LAB_DB are empty and sp_enrich_trades.main was never called.
AggInit ==
    /\ demo_trades_raw = {}
    /\ demo_positions_raw = {}
    /\ demo_trades_enriched = EmptyBag
    /\ agg_outcome = "none"
    /\ agg_runs = 0

PipeInit ==
    /\ trades_raw = {}
    /\ stream_offset = 0
    /\ positions_raw = {}
    /\ trades_enriched = {}
    /\ now = 0
    /\ pc = "idle"
    /\ row_count = NoCount
    /\ outcome = "none"

Init ==
    /\ PipeInit
    /\ ScriptInit
    /\ UtilInit
    /\ AggInit
    /\ args = NoArgs
    /\ ret = <<0, FALSE>>
    /\ pnl_pc = "off"

Next ==
    \/ InsertTrade
    \/ LoadPosition
    \/ Count
    \/ CountFails
    \/ Write
    \/ WriteFails
    \/ Return

Spec == Init /\ [][Next]_vars

\* The tables POSITIONS_RAW can hold after up to MaxPositions loads.
PositionTables ==
    UNION {{{[account_id |-> a, symbol |-> sy, quantity |-> f[i].quantity,
              avg_cost |-> f[i].avg_cost, updated_at |-> i] : i \in 1..n} :
               f \in [1..n -> PositionKinds], a \in Accounts, sy \in HeldSymbols} :
           n \in 0..MaxPositions}

\* The pipeline started against a position table that is already loaded.
InitLive ==
    /\ trades_raw = {}
    /\ stream_offset = 0
    /\ positions_raw \in PositionTables
    /\ trades_enriched = {}
    /\ now = 0
    /\ pc = "idle"
    /\ row_count = NoCount
    /\ outcome = "none"
    /\ ScriptInit
    /\ UtilInit
    /\ AggInit
    /\ args = NoArgs
    /\ ret = <<0, FALSE>>
    /\ pnl_pc = "off"

NextLive ==
    \/ InsertTrade
    \/ Count
    \/ CountFails
    \/ Write
    \/ WriteFails
    \/ Return

\* The task keeps calling main, and neither the count nor the append fails
\* for ever: a cycle that can start does start, an append that is attempted
\* again and again eventually succeeds, and a cycle that can return returns.
SpecLive ==
    InitLive /\ [][NextLive]_vars
        /\ WF_vars(Count) /\ SF_vars(Write) /\ WF_vars(Return)

\* ------------------------------- main called through the script entry point
\* The block under if __name__ == "__main__" opens a session of its own and
\* calls main(session); nothing in main or in the block looks at another
\* call in progress. The steps are those of main.
ScriptCount ==
    /\ script_pc = "idle"
    /\ script_row_count' = Cardinality(Enriched(now))
    /\ script_pc' = IF script_row_count' > 0 THEN "write" ELSE "return"
    /\ script_outcome' = "none"
    /\ UNCHANGED <<pnlVars, pipeVars, aggVars>>
    /\ UNCHANGED utilVars

ScriptCountFails ==
    /\ script_pc = "idle"
    /\ script_row_count' = NoCount
    /\ script_outcome' = "raised"
    /\ UNCHANGED script_pc
    /\ UNCHANGED <<pnlVars, pipeVars, aggVars>>
    /\ UNCHANGED utilVars

\* The INSERT ... SELECT of this call: it evaluates the query against the
\* stream as it is when the statement runs.
ScriptWrite ==
    /\ script_pc = "write"
    /\ trades_enriched' = trades_enriched \cup Enriched(now + 1)
    /\ stream_offset' = StreamAdvance
    /\ now' = now + 1
    /\ script_pc' = "return"
    /\ UNCHANGED <<trades_raw, positions_raw, pc, row_count, outcome>>
    /\ UNCHANGED <<script_row_count, script_outcome>>
    /\ UNCHANGED <<pnlVars, aggVars>>
    /\ UNCHANGED utilVars

ScriptWriteFails ==
    /\ script_pc = "write"
    /\ script_pc' = "idle"
    /\ script_outcome' = "raised"
    /\ UNCHANGED script_row_count
    /\ UNCHANGED <<pnlVars, pipeVars, aggVars>>
    /\ UNCHANGED utilVars

\* result = main(session); print(result)
ScriptReturn ==
    /\ script_pc = "return"
    /\ script_pc' = "idle"
    /\ script_outcome' = "returned"
    /\ UNCHANGED script_row_count
    /\ UNCHANGED <<pnlVars, pipeVars, aggVars>>
    /\ UNCHANGED utilVars

\* The task and the script both call main against the same stream.
NextTwo ==
    \/ InsertTrade
    \/ Count
    \/ CountFails
    \/ Write
    \/ WriteFails
    \/ Return
    \/ ScriptCount
    \/ ScriptCountFails
    \/ ScriptWrite
    \/ ScriptWriteFails
    \/ ScriptReturn

SpecTwo == InitLive /\ [][NextTwo]_vars

\* ------------------------------------------ sp_enrich_trades.py: main
\* The accounts holding positions in DEMO_LAB_DB.
AggAccounts == {"ACCT-001", "ACCT-002"}

\* The trades of DEMO_LAB_DB.RAW.TRADES_RAW: one kind per instrument.
AggTradeKinds == {[symbol |-> sy] : sy \in Symbols}

\* The position rows of DEMO_LAB_DB.RAW.POSITIONS_RAW: either account, in the
\* held instrument, with a CURRENT_PRICE that may be NULL.
AggPositionKinds ==
    [account_id : AggAccounts, quantity : {1, 2},
     current_price : {Some(1), Some(2), None}]

\* A row of TRADES_RAW with the columns main selects.
DemoTrade(id, k) ==
    [trade_id |-> id, account_id |-> "ACCT-001", symbol |-> k.symbol,
     trade_ts |-> id, side |-> "BUY", quantity |-> 1, price |-> 3,
     amount |-> 3, exchange |-> "NYSE", status |-> "filled"]

\* A row of POSITIONS_RAW with the columns main reads; MARKET_VALUE is
\* quantity * current_price as the generator writes it.
DemoPosition(row, k) ==
    [row |-> row, account_id |-> k.account_id, symbol |-> "AAPL",
     quantity |-> Some(k.quantity), current_price |-> k.current_price,
     market_value |-> IF IsNone(k.current_price) THEN None
                      ELSE Some(k.quantity * Val(k.current_price))]

\* SUM(column) over the rows of a group: NULLs are skipped, and the sum of no
\* value is NULL.
RECURSIVE SqlSum(_, _)
SqlSum(rows, column) ==
    IF rows = {} THEN None
    ELSE LET r == CHOOSE x \in rows : TRUE
             rest == SqlSum(rows \ {r}, column)
         IN  IF IsNone(r[column]) THEN rest
             ELSE IF IsNone(rest) THEN r[column]
                  ELSE Some(Val(r[column]) + Val(rest))

\* The number of non-NULL values of the column in the group.
SqlCount(rows, column) == Cardinality({r \in rows : ~IsNone(r[column])})

\* AVG yields a number with more decimal digits than its column: the mean in
\* units of 1/AvgScale of the column's unit.
AvgScale == 1000000

\* Mutant: the mean divides by the number of rows, NULLs included.
SqlAvg_CountsNulls(rows, column) ==
    IF SqlCount(rows, column) = 0 THEN None
    ELSE Some((2 * Val(SqlSum(rows, column)) * AvgScale + Cardinality(rows))
              \div (2 * Cardinality(rows)))

\* AVG(column) over the rows of a group, rounded half up to the result scale
\* (the values are not negative).
SqlAvg(rows, column) ==
    IF SqlCount(rows, column) = 0 THEN None
    ELSE Some((2 * Val(SqlSum(rows, column)) * AvgScale + SqlCount(rows, column))
              \div (2 * SqlCount(rows, column)))

\* Mutant: group_by("SYMBOL", "ACCOUNT_ID"), one row per SYMBOL and account.
positions_agg_PerAccount ==
    {LET rows == {p \in demo_positions_raw : p.symbol = k[1] /\ p.account_id = k[2]}
     IN  [symbol |-> k[1],
          avg_market_price |-> SqlAvg(rows, "current_price"),
          total_position_qty |-> SqlSum(rows, "quantity"),
          total_market_value |-> SqlSum(rows, "market_value")] :
     k \in {<<p.symbol, p.account_id>> : p \in demo_positions_raw}}

\* positions.group_by("SYMBOL").agg(...): one row per SYMBOL of POSITIONS_RAW.
positions_agg ==
    {LET rows == {p \in demo_positions_raw : p.symbol = sy}
     IN  [symbol |-> sy,
          avg_market_price |-> SqlAvg(rows, "current_price"),
          total_position_qty |-> SqlSum(rows, "quantity"),
          total_market_value |-> SqlSum(rows, "market_value")] :
     sy \in {p.symbol : p \in demo_positions_raw}}

\* The select list of the join for trade t and the joined aggregate columns.
AggRow(t, avg_market_price, total_position_qty, total_market_value) ==
    [trade_id |-> t.trade_id, account_id |-> t.account_id, symbol |-> t.symbol,
     trade_ts |-> t.trade_ts, side |-> t.side, quantity |-> t.quantity,
     price |-> t.price, amount |-> t.amount, exchange |-> t.exchange,
     status |-> t.status,
     avg_market_price |-> avg_market_price,
     total_position_qty |-> total_position_qty,
     total_market_value |-> total_market_value]

\* Mutant: how="inner", a trade whose SYMBOL has no aggregate gives no row.
AggJoinRows_InnerJoin(t) ==
    {AggRow(t, g.avg_market_price, g.total_position_qty, g.total_market_value) :
        g \in {h \in positions_agg : t.symbol = h.symbol}}

\* The rows of the left join for one trade.
AggJoinRows(t) ==
    LET matches == {g \in positions_agg : t.symbol = g.symbol}
    IN  IF matches = {}
        THEN {AggRow(t, None, None, None)}
        ELSE {AggRow(t, g.avg_market_price, g.total_position_qty,
                     g.total_market_value) : g \in matches}

\* The DataFrame enriched of sp_enrich_trades.main, as the bag of its rows
\* (the rows of different trades differ in TRADE_ID).
AggEnriched == SetToBag(UNION {AggJoinRows(t) : t \in demo_trades_raw})

\* A trade is inserted into DEMO_LAB_DB.RAW.TRADES_RAW.
AggInsertTrade ==
    /\ Cardinality(demo_trades_raw) < MaxTrades
    /\ \E k \in AggTradeKinds :
          demo_trades_raw' =
              demo_trades_raw \cup {DemoTrade(Cardinality(demo_trades_raw) + 1, k)}
    /\ agg_runs' = 0
    /\ UNCHANGED <<demo_positions_raw, demo_trades_enriched, agg_outcome>>
    /\ UNCHANGED <<pnlVars, pipeVars, scriptVars>>
    /\ UNCHANGED utilVars

\* A position row is loaded into DEMO_LAB_DB.RAW.POSITIONS_RAW.
AggLoadPosition ==
    /\ Cardinality(demo_positions_raw) < MaxPositions
    /\ \E k \in AggPositionKinds :
          demo_positions_raw' =
              demo_positions_raw
                  \cup {DemoPosition(Cardinality(demo_positions_raw) + 1, k)}
    /\ agg_runs' = 0
    /\ UNCHANGED <<demo_trades_raw, demo_trades_enriched, agg_outcome>>
    /\ UNCHANGED <<pnlVars, pipeVars, scriptVars>>
    /\ UNCHANGED utilVars

\* Mutant: mode="append", the statement adds the rows to those already there.
Rebuild_Append ==
    /\ agg_runs < MaxRebuilds
    /\ demo_trades_enriched' = demo_trades_enriched (+) AggEnriched
    /\ agg_outcome' = "returned"
    /\ agg_runs' = agg_runs + 1
    /\ UNCHANGED <<demo_trades_raw, demo_positions_raw>>
    /\ UNCHANGED <<pnlVars, pipeVars, scriptVars>>
    /\ UNCHANGED utilVars

\* Mutant: main reads TRADES_RAW_STREAM in its statement, which consumes it.
Rebuild_ConsumesStream ==
    /\ agg_runs < MaxRebuilds
    /\ demo_trades_enriched' = AggEnriched
    /\ agg_outcome' = "returned"
    /\ agg_runs' = agg_runs + 1
    /\ stream_offset' = StreamAdvance
    /\ UNCHANGED <<demo_trades_raw, demo_positions_raw>>
    /\ UNCHANGED <<trades_raw, positions_raw, trades_enriched, now, pc, row_count,
                   outcome>>
    /\ UNCHANGED <<pnlVars, scriptVars>>
    /\ UNCHANGED utilVars

\* One call of main that returns: save_as_table(mode="overwrite") replaces the
\* table by the rows of enriched in one statement, then
\* return "TRADES_ENRICHED refreshed".
Rebuild ==
    /\ agg_runs < MaxRebuilds
    /\ demo_trades_enriched' = AggEnriched
    /\ agg_outcome' = "returned"
    /\ agg_runs' = agg_runs + 1
    /\ UNCHANGED <<demo_trades_raw, demo_positions_raw>>
    /\ UNCHANGED <<pnlVars, pipeVars, scriptVars>>
    /\ UNCHANGED utilVars

\* One call of main whose statement fails: the table keeps its rows and the
\* exception leaves main.
RebuildFails ==
    /\ agg_outcome' = "raised"
    /\ UNCHANGED <<demo_trades_raw, demo_positions_raw, demo_trades_enriched, agg_runs>>
    /\ UNCHANGED <<pnlVars, pipeVars, scriptVars>>
    /\ UNCHANGED utilVars

InitAgg ==
    /\ PipeInit
    /\ ScriptInit
    /\ UtilInit
    /\ AggInit
    /\ args = NoArgs
    /\ ret = <<0, FALSE>>
    /\ pnl_pc = "off"

NextAgg ==
    \/ AggInsertTrade
    \/ AggLoadPosition
    \/ Rebuild
    \/ RebuildFails

SpecAgg == InitAgg /\ [][NextAgg]_vars

\* The tables of DEMO_LAB_DB the aggregation is run over while the pipeline
\* cycles: empty, or one trade and one position row of the held instrument.
InitCursor ==
    /\ PipeInit
    /\ ScriptInit
    /\ UtilInit
    /\ \/ /\ demo_trades_raw = {}
          /\ demo_positions_raw = {}
       \/ /\ demo_trades_raw = {DemoTrade(1, [symbol |-> "AAPL"])}
          /\ demo_positions_raw
                 = {DemoPosition(1, [account_id |-> "ACCT-001", quantity |-> 1,
                                     current_price |-> Some(2)])}
    /\ demo_trades_enriched = EmptyBag
    /\ agg_outcome = "none"
    /\ agg_runs = 0
    /\ args = NoArgs
    /\ ret = <<0, FALSE>>
    /\ pnl_pc = "off"

\* The pipeline's cycles interleaved with calls of sp_enrich_trades.main.
NextCursor ==
    \/ InsertTrade
    \/ Count
    \/ CountFails
    \/ Write
    \/ WriteFails
    \/ Return
    \/ Rebuild
    \/ RebuildFails

SpecCursor == InitCursor /\ [][NextCursor]_vars

\* ------------------------------------------- utils/cleanup.py: main
\* The variables of the other programs, which cleanup.py does not touch.
notCleanupVars == <<pnlVars, pipeVars, scriptVars, aggVars, verifyVars, genVars>>

\* parse_args and Session.builder...create() succeed: the session is open;
\* with --confirm main goes on to ask, without it to the dry run.
CleanupConnect ==
    /\ cl_pc = "start"
    /\ \E c \in BOOLEAN :
          /\ cl_confirm' = c
          /\ cl_pc' = IF c THEN "ask" ELSE "clean"
    /\ cl_session' = "open"
    /\ UNCHANGED <<cl_answer, cl_i, cl_objects, cl_suspended, cl_issued, cl_exit>>
    /\ UNCHANGED notCleanupVars

\* create() raises: main prints the failure and returns 1.
CleanupConnectFails ==
    /\ cl_pc = "start"
    /\ \E c \in BOOLEAN : cl_confirm' = c
    /\ cl_pc' = "done"
    /\ cl_exit' = Some(1)
    /\ UNCHANGED <<cl_session, cl_answer, cl_i, cl_objects, cl_suspended, cl_issued>>
    /\ UNCHANGED notCleanupVars

\* Confirm.ask returns True.
CleanupAskAccepted ==
    /\ cl_pc = "ask"
    /\ cl_answer' = "yes"
    /\ cl_pc' = "clean"
    /\ UNCHANGED <<cl_confirm, cl_session, cl_i, cl_objects, cl_suspended,
                   cl_issued, cl_exit>>
    /\ UNCHANGED notCleanupVars

\* Confirm.ask returns False: "Cancelled.", session.close(), return 0.
CleanupAskDeclined ==
    /\ cl_pc = "ask"
    /\ cl_answer' = "no"
    /\ cl_session' = "closed"
    /\ cl_exit' = Some(0)
    /\ cl_pc' = "done"
    /\ UNCHANGED <<cl_confirm, cl_i, cl_objects, cl_suspended, cl_issued>>
    /\ UNCHANGED notCleanupVars

\* Mutant: a cleanup function without its dry_run test sends the statement.
CleanupWouldDrop_Sends ==
    /\ cl_pc = "clean"
    /\ ~cl_confirm
    /\ cl_i <= Len(CleanupPlan)
    /\ cl_issued' = cl_issued \cup {cl_i}
    /\ cl_objects' = IF CleanupPlan[cl_i].verb = "DROP"
                     THEN cl_objects \ {CleanupPlan[cl_i].name}
                     ELSE cl_objects
    /\ cl_i' = cl_i + 1
    /\ UNCHANGED <<cl_confirm, cl_pc, cl_session, cl_answer, cl_suspended, cl_exit>>
    /\ UNCHANGED notCleanupVars

\* if dry_run: console.print("Would drop ..."): the object's statements are
\* passed over.
CleanupWouldDrop ==
    /\ cl_pc = "clean"
    /\ ~cl_confirm
    /\ cl_i <= Len(CleanupPlan)
    /\ cl_i' = cl_i + 1
    /\ UNCHANGED <<cl_confirm, cl_pc, cl_session, cl_answer, cl_objects,
                   cl_suspended, cl_issued, cl_exit>>
    /\ UNCHANGED notCleanupVars

\* session.sql(...).collect() of the statement main is at succeeds. ALTER TASK
\* IF EXISTS ... SUSPEND suspends the task if it exists; DROP ... IF EXISTS
\* removes the object, DROP DATABASE ... CASCADE with all that is in it.
CleanupStatement ==
    /\ cl_pc = "clean"
    /\ cl_confirm
    /\ cl_i <= Len(CleanupPlan)
    /\ cl_issued' = cl_issued \cup {cl_i}
    /\ LET st == CleanupPlan[cl_i]
           gone == IF st.verb = "ALTER" THEN {}
                   ELSE IF st.kind = "DATABASE" THEN InDatabase
                   ELSE {st.name}
       IN  /\ cl_objects' = cl_objects \ gone
           /\ cl_suspended' =
                  (IF st.verb = "ALTER" /\ st.name \in cl_objects
                   THEN cl_suspended \cup {st.name}
                   ELSE cl_suspended) \ gone
    /\ cl_i' = cl_i + 1
    /\ UNCHANGED <<cl_confirm, cl_pc, cl_session, cl_answer, cl_exit>>
    /\ UNCHANGED notCleanupVars

\* The statement raises: the except clause prints the error and the loop goes
\* to the next object, past the DROP of a task whose ALTER raised.
CleanupStatementRaises ==
    /\ cl_pc = "clean"
    /\ cl_confirm
    /\ cl_i <= Len(CleanupPlan)
    /\ cl_issued' = cl_issued \cup {cl_i}
    /\ cl_i' = IF CleanupPlan[cl_i].verb = "ALTER" THEN cl_i + 2 ELSE cl_i + 1
    /\ UNCHANGED <<cl_confirm, cl_pc, cl_session, cl_answer, cl_objects,
                   cl_suspended, cl_exit>>
    /\ UNCHANGED notCleanupVars

\* finally: session.close(); the closing message; return 0.
CleanupClose ==
    /\ cl_pc = "clean"
    /\ cl_i > Len(CleanupPlan)
    /\ cl_session' = "closed"
    /\ cl_exit' = Some(0)
    /\ cl_pc' = "done"
    /\ UNCHANGED <<cl_confirm, cl_answer, cl_i, cl_objects, cl_suspended, cl_issued>>
    /\ UNCHANGED notCleanupVars

NextCleanup ==
    \/ CleanupConnect
    \/ CleanupConnectFails
    \/ CleanupAskAccepted
    \/ CleanupAskDeclined
    \/ CleanupWouldDrop
    \/ CleanupStatement
    \/ CleanupStatementRaises
    \/ CleanupClose

SpecCleanup == Init /\ [][NextCleanup]_vars

\* ----------------- tests/test_snowpark_transforms.py: calculate_realized_pnl
\* Mutant: the copy closes a short by min(quantity, position_qty), without abs.
test_calculate_realized_pnl_NoAbs(side, quantity, price, position_qty, avg_cost) ==
    IF IsNone(position_qty) \/ IsNone(avg_cost)
    THEN <<0, FALSE>>
    ELSE IF side = "SELL" /\ Val(position_qty) > 0
         THEN <<Min(quantity, Val(position_qty)) * (price - Val(avg_cost)), TRUE>>
         ELSE IF side = "BUY" /\ Val(position_qty) < 0
              THEN <<Min(quantity, Val(position_qty)) * (Val(avg_cost) - price), TRUE>>
              ELSE <<0, FALSE>>

\* The copy of the function the test module defines and tests.
test_calculate_realized_pnl(side, quantity, price, position_qty, avg_cost) ==
    IF IsNone(position_qty) \/ IsNone(avg_cost)
    THEN <<0, FALSE>>
    ELSE LET closes_long == side = "SELL" /\ Val(position_qty) > 0
             closes_short == ~closes_long /\ side = "BUY" /\ Val(position_qty) < 0
             is_closing == closes_long \/ closes_short
             closing_qty == IF closes_long THEN Min(quantity, Val(position_qty))
                            ELSE Min(quantity, Abs(Val(position_qty)))
             realized_pnl == IF closes_long THEN closing_qty * (price - Val(avg_cost))
                             ELSE IF closes_short
                                  THEN closing_qty * (Val(avg_cost) - price)
                                  ELSE 0
         IN  <<realized_pnl, is_closing>>

\* --------------------------------------- utils/setup_verify.py: main
\* The variables of the other programs, which setup_verify.py does not touch.
notVerifyVars == <<pnlVars, pipeVars, scriptVars, aggVars, cleanupVars, genVars>>

\* The results of a check function whose objects are all found.
AllFound(g) ==
    [i \in 1..g.items |-> CheckResult(g.check, i, TRUE, "found")]

\* Its results when its first object is missing (no row, or an empty table).
FirstMissing(g) ==
    [i \in 1..g.items |-> CheckResult(g.check, i, i # 1, IF i = 1 THEN "missing" ELSE "found")]

\* Its results when a query raises: the except clause of a function with one
\* query records every item as failed with str(e); a function with a query
\* per item records the item whose query raised, here the last.
QueryRaises(g) ==
    [i \in 1..g.items |->
        IF g.per_item /\ i # g.items
        THEN CheckResult(g.check, i, TRUE, "found")
        ELSE CheckResult(g.check, i, FALSE, "error")]

\* Mutant: a task that exists passes, whatever its state.
check_tasks_AnyState ==
    [i \in 1..Len(RequiredTasks) |->
        IF sv_task_state[i] = "absent"
        THEN CheckResult("tasks", i, FALSE, "missing")
        ELSE CheckResult("tasks", i, TRUE, "running")]

\* check_tasks when SHOW TASKS and the reading of its rows succeed: a task
\* passes if its row says "started".
check_tasks ==
    [i \in 1..Len(RequiredTasks) |->
        IF sv_task_state[i] = "absent"
        THEN CheckResult("tasks", i, FALSE, "missing")
        ELSE IF sv_task_state[i] = "started"
             THEN CheckResult("tasks", i, TRUE, "running")
             ELSE CheckResult("tasks", i, FALSE, "not running")]

\* The outcomes of the check function g.
CheckOutcomes(g) ==
    IF g.check = "tasks"
    THEN {check_tasks, QueryRaises(g)}
    ELSE {AllFound(g), FirstMissing(g), QueryRaises(g)}

\* Session.builder...create() succeeds; the tasks are in the state they are in.
VerifyConnect ==
    /\ sv_pc = "start"
    /\ sv_session' = "open"
    /\ sv_task_state' \in [1..Len(RequiredTasks) -> TaskStates]
    /\ sv_pc' = "check"
    /\ UNCHANGED <<sv_step, sv_all_results, sv_exit>>
    /\ UNCHANGED notVerifyVars

\* create() raises: main prints the failure and returns 1.
VerifyConnectFails ==
    /\ sv_pc = "start"
    /\ sv_pc' = "done"
    /\ sv_exit' = Some(1)
    /\ UNCHANGED <<sv_session, sv_step, sv_all_results, sv_task_state>>
    /\ UNCHANGED notVerifyVars

\* all_results.append / extend of the next check function's results.
VerifyCheck ==
    /\ sv_pc = "check"
    /\ sv_step <= Len(VerifyPlan)
    /\ \E rs \in CheckOutcomes(VerifyPlan[sv_step]) :
          sv_all_results' = sv_all_results \o rs
    /\ sv_step' = sv_step + 1
    /\ UNCHANGED <<sv_pc, sv_session, sv_task_state, sv_exit>>
    /\ UNCHANGED notVerifyVars

\* finally: session.close().
VerifyClose ==
    /\ sv_pc = "check"
    /\ sv_step > Len(VerifyPlan)
    /\ sv_session' = "closed"
    /\ sv_pc' = "report"
    /\ UNCHANGED <<sv_step, sv_all_results, sv_task_state, sv_exit>>
    /\ UNCHANGED notVerifyVars

\* The count of passed and failed results, the summary, return 0 if failed == 0
\* else 1.
VerifyReport ==
    /\ sv_pc = "report"
    /\ LET failed == Cardinality({i \in 1..Len(sv_all_results) :
                                     ~sv_all_results[i].passed})
       IN  sv_exit' = IF failed = 0 THEN Some(0) ELSE Some(1)
    /\ sv_pc' = "done"
    /\ UNCHANGED <<sv_session, sv_step, sv_all_results, sv_task_state>>
    /\ UNCHANGED notVerifyVars

NextVerify ==
    \/ VerifyConnect
    \/ VerifyConnectFails
    \/ VerifyCheck
    \/ VerifyClose
    \/ VerifyReport

SpecVerify == Init /\ [][NextVerify]_vars

\* ------------------- data-samples: generate_positions_data / generate_positions
\* The variables of the other programs, which the generators do not touch.
notGenVars == <<pnlVars, pipeVars, scriptVars, aggVars, cleanupVars, verifyVars>>

\* A call with some num_rows: data = [], used_combos = set().
InitGen ==
    /\ PipeInit
    /\ ScriptInit
    /\ AggInit
    /\ CleanupInit
    /\ VerifyInit
    /\ args = NoArgs
    /\ ret = <<0, FALSE>>
    /\ pnl_pc = "off"
    /\ gen_num_rows \in 0..MaxRows
    /\ gen_pc = "loop"
    /\ gen_combo = None
    /\ gen_used = {}
    /\ gen_data = <<>>

\* One pass of `while True` that draws a combo not yet used: it is added to
\* used_combos, the loop breaks and the row is appended to data.
GenAccept ==
    /\ gen_pc = "loop"
    /\ Len(gen_data) < gen_num_rows
    /\ \E c \in GenCombos \ gen_used :
          /\ gen_combo' = Some(c)
          /\ gen_used' = gen_used \cup {c}
          /\ gen_data' = Append(gen_data, c)
    /\ UNCHANGED <<gen_num_rows, gen_pc>>
    /\ UNCHANGED notGenVars

\* One pass of `while True` that draws a used combo: the loop goes round.
GenReject ==
    /\ gen_pc = "loop"
    /\ Len(gen_data) < gen_num_rows
    /\ \E c \in gen_used : gen_combo' = Some(c)
    /\ UNCHANGED <<gen_num_rows, gen_pc, gen_used, gen_data>>
    /\ UNCHANGED notGenVars

\* `for _ in range(num_rows)` is exhausted: return pd.DataFrame(data).
GenReturn ==
    /\ gen_pc = "loop"
    /\ Len(gen_data) = gen_num_rows
    /\ gen_pc' = "done"
    /\ UNCHANGED <<gen_num_rows, gen_combo, gen_used, gen_data>>
    /\ UNCHANGED notGenVars

NextGen ==
    \/ GenAccept
    \/ GenReject
    \/ GenReturn

\* random.choice keeps drawing, and a combo that stays possible is drawn in
\* the end; the function returns when its loop is done.
SpecGen ==
    InitGen /\ [][NextGen]_vars
        /\ WF_vars(GenAccept) /\ WF_vars(GenReject) /\ WF_vars(GenReturn)

\* ---------------------------------------- calling calculate_realized_pnl
\* The arguments a call may carry: both sides, quantity from 0, a positive
\* price, a signed or absent position and a positive or absent average cost.
PnlArgs ==
    [side : Sides,
     quantity : 0..MaxQty,
     price : 1..MaxPrice,
     position_qty : {None} \cup {Some(q) : q \in (-MaxPos)..MaxPos},
     avg_cost : {None} \cup {Some(c) : c \in 1..MaxPrice}]

InitPnl ==
    /\ PipeInit
    /\ ScriptInit
    /\ UtilInit
    /\ AggInit
    /\ args \in PnlArgs
    /\ ret = <<0, FALSE>>
    /\ pnl_pc = "call"

\* One call of calculate_realized_pnl on the drawn arguments.
CallPnl ==
    /\ pnl_pc = "call"
    /\ ret' = calculate_realized_pnl(args.side, args.quantity, args.price,
                                     args.position_qty, args.avg_cost)
    /\ pnl_pc' = "returned"
    /\ UNCHANGED args
    /\ UNCHANGED <<pipeVars, scriptVars, aggVars>>
    /\ UNCHANGED utilVars

NextPnl == CallPnl

SpecPnl == InitPnl /\ [][NextPnl]_vars

\* ------------------------------------------ claims on calculate_realized_pnl
Returned == pnl_pc = "returned"

HasPosition == ~IsNone(args.position_qty) /\ ~IsNone(args.avg_cost)

\* The trade runs against the position: a SELL while long or a BUY while short.
ClosingDirection ==
    \/ args.side = "SELL" /\ Val(args.position_qty) > 0
    \/ args.side = "BUY" /\ Val(args.position_qty) < 0

\* The P&L of one closed unit: price - avg_cost for a SELL, avg_cost - price for a BUY.
UnitPnl ==
    IF args.side = "SELL" THEN args.price - Val(args.avg_cost)
                          ELSE Val(args.avg_cost) - args.price

\* C1: whenever position_qty is absent or avg_cost is absent (either one alone),
\* the call returns (0, false), for every side, quantity and price.
C1_AbsentPositionYieldsZero ==
    (Returned /\ (IsNone(args.position_qty) \/ IsNone(args.avg_cost)))
        => ret = <<0, FALSE>>

\* C1 witness: a SELL against a long position whose avg_cost alone is absent has returned.
C1_Witness ==
    /\ Returned
    /\ args.side = "SELL"
    /\ args.quantity > 0
    /\ ~IsNone(args.position_qty)
    /\ Val(args.position_qty) > 0
    /\ IsNone(args.avg_cost)

\* C2: a SELL against a long position returns
\* min(quantity, position_qty) * (price - avg_cost) and is_closing = true; for a
\* trade of positive quantity that is a profit when price > avg_cost and a loss
\* when price < avg_cost.
C2_SellClosesLong ==
    (Returned /\ HasPosition /\ args.side = "SELL" /\ Val(args.position_qty) > 0)
        => /\ ret[1] = Min(args.quantity, Val(args.position_qty))
                          * (args.price - Val(args.avg_cost))
           /\ ret[2] = TRUE
           /\ (args.quantity > 0 /\ args.price > Val(args.avg_cost)) => ret[1] > 0
           /\ (args.quantity > 0 /\ args.price < Val(args.avg_cost)) => ret[1] < 0

\* C2 witness: a partial close of a long position at a loss has returned.
C2_Witness ==
    /\ Returned
    /\ HasPosition
    /\ args.side = "SELL"
    /\ Val(args.position_qty) > 0
    /\ args.quantity > 0
    /\ args.quantity < Val(args.position_qty)
    /\ args.price < Val(args.avg_cost)
    /\ ret[1] < 0

\* C3: a BUY against a short position returns
\* min(quantity, abs(position_qty)) * (avg_cost - price) and is_closing = true.
C3_BuyClosesShort ==
    (Returned /\ HasPosition /\ args.side = "BUY" /\ Val(args.position_qty) < 0)
        => /\ ret[1] = Min(args.quantity, Abs(Val(args.position_qty)))
                          * (Val(args.avg_cost) - args.price)
           /\ ret[2] = TRUE

\* C3 witness: a BUY that covers a short position at a profit has returned.
C3_Witness ==
    /\ Returned
    /\ HasPosition
    /\ args.side = "BUY"
    /\ Val(args.position_qty) < 0
    /\ args.quantity > 0
    /\ args.price < Val(args.avg_cost)
    /\ ret[1] > 0

\* C4: with a known position, is_closing is true exactly when the trade is a
\* SELL while long or a BUY while short, whatever the quantity and the price;
\* a quantity-0 trade in the closing direction returns (0, true).
C4_ClosingIsDirection ==
    (Returned /\ HasPosition)
        => /\ ret[2] = ClosingDirection
           /\ (args.quantity = 0 /\ ClosingDirection) => ret = <<0, TRUE>>

\* C4 witness: a quantity-0 SELL against a long position has returned.
C4_Witness ==
    /\ Returned
    /\ HasPosition
    /\ args.quantity = 0
    /\ args.side = "SELL"
    /\ Val(args.position_qty) > 0
    /\ args.price # Val(args.avg_cost)

\* C5: a BUY while long, a SELL while short and either side against a flat
\* position return exactly (0, false), whatever price, quantity and avg_cost.
C5_NonClosingYieldsZero ==
    (Returned /\ HasPosition /\ ~ClosingDirection) => ret = <<0, FALSE>>

\* C5 witness: a SELL of positive quantity against a flat position has returned.
C5_Witness ==
    /\ Returned
    /\ HasPosition
    /\ args.side = "SELL"
    /\ Val(args.position_qty) = 0
    /\ args.quantity > 0
    /\ args.price # Val(args.avg_cost)

\* C6: when a closing trade's quantity exceeds the position magnitude, the
\* realized P&L is abs(position_qty) times the per-unit difference, and one more
\* unit of quantity leaves it unchanged.
C6_ExcessQuantityUnattributed ==
    (Returned /\ HasPosition /\ ClosingDirection
        /\ args.quantity > Abs(Val(args.position_qty)))
        => /\ ret[1] = Abs(Val(args.position_qty)) * UnitPnl
           /\ calculate_realized_pnl(args.side, args.quantity + 1, args.price,
                                     args.position_qty, args.avg_cost)[1] = ret[1]

\* C6 witness: a BUY larger than the short position it covers has returned with a P&L.
C6_Witness ==
    /\ Returned
    /\ HasPosition
    /\ args.side = "BUY"
    /\ Val(args.position_qty) < 0
    /\ args.quantity > Abs(Val(args.position_qty))
    /\ ret[1] # 0

\* ------------------------------------------------------ claims on main
\* The trade identifiers with a row in the sink.
SinkIds(sink) == {r.trade_id : r \in sink}

\* C7: after any sequence of cycles the sink holds at most one row per trade
\* identifier.
C7_OneRowPerTradeId ==
    \A r1 \in trades_enriched, r2 \in trades_enriched :
        r1.trade_id = r2.trade_id => r1 = r2

\* C8: when the change feed yields zero rows, the cycle goes from the count
\* straight to the return, writes nothing to the sink, leaves the cursor where
\* it is and returns without raising.
C8_EmptyFeedNoWork ==
    [][/\ (pc = "idle" /\ pc' # "idle" /\ StreamRows = {})
            => (pc' = "return" /\ row_count' = 0)
       /\ ((pc = "idle" /\ pc' = "return") \/ (pc = "return" /\ row_count = 0))
            => /\ trades_enriched' = trades_enriched
               /\ stream_offset' = stream_offset
               /\ outcome' # "raised"
               /\ pc' \in {"return", "idle"}
       /\ (pc = "return" /\ row_count = 0 /\ pc' = "idle") => outcome' = "returned"
      ]_vars

\* C8 witness: a cycle over an empty feed has returned, after an earlier batch
\* was consumed.
C8_Witness ==
    /\ pc = "idle"
    /\ outcome = "returned"
    /\ row_count = 0
    /\ stream_offset > 0
    /\ trades_enriched # {}

\* C9: whenever the cursor moves, every trade it moves past has its rows in
\* the sink; a cycle that fails at the count or at the append leaves the
\* cursor, the pending batch and the sink as they were and main idle, so the
\* next cycle polls the same batch.
C9_AdvanceOnlyWithAppend ==
    [][/\ stream_offset' # stream_offset
            => /\ StreamRows # {}
               /\ \A t \in trades_raw' :
                     t.trade_id <= stream_offset' => t.trade_id \in SinkIds(trades_enriched')
       /\ (CountFails \/ WriteFails)
            => /\ stream_offset' = stream_offset
               /\ StreamRows' = StreamRows
               /\ trades_enriched' = trades_enriched
               /\ pc' = "idle"
      ]_vars

\* C9 witness: after an earlier batch was consumed, the append of the next
\* batch has failed and that batch is still pending.
C9_Witness ==
    /\ pc = "idle"
    /\ outcome = "raised"
    /\ row_count > 0
    /\ stream_offset > 0
    /\ StreamRows # {}
    /\ SinkIds(trades_enriched) = 1..stream_offset

\* C10: the sink changes only by a whole batch: what a step adds is the rows
\* of every pending trade, and no pending trade has a row in the sink before.
C10_AppendAllOrNothing ==
    [][/\ SinkIds(trades_enriched) \cap {t.trade_id : t \in StreamRows} = {}
       /\ trades_enriched' # trades_enriched
            => /\ trades_enriched' \ trades_enriched = Enriched(now + 1)
               /\ SinkIds(trades_enriched' \ trades_enriched)
                     = {t.trade_id : t \in StreamRows}
               /\ trades_enriched \subseteq trades_enriched'
      ]_vars

\* C10 witness: one append has written the rows of a batch of two trades.
C10_Witness ==
    \E r1 \in trades_enriched, r2 \in trades_enriched :
        /\ r1.trade_id # r2.trade_id
        /\ r1.processed_at = r2.processed_at

\* The content of enriched rows: every column but _PROCESSED_AT, which is the
\* time of the attempt.
Content(rows) ==
    {[trade_id |-> r.trade_id, symbol |-> r.symbol, side |-> r.side,
      quantity |-> r.quantity, price |-> r.price,
      notional_value |-> r.notional_value, account_id |-> r.account_id,
      position_qty |-> r.position_qty, avg_cost |-> r.avg_cost,
      realized_pnl |-> r.realized_pnl, is_closing |-> r.is_closing] : r \in rows}

C12_EveryTradeEnriched ==
    /\ \A id \in 1..MaxTrades :
          (\E t \in trades_raw : t.trade_id = id)
              ~> (id \in SinkIds(trades_enriched))
    /\ [](\A t \in trades_raw :
             t.trade_id <= stream_offset => t.trade_id \in SinkIds(trades_enriched))

\* C12 witness: every one of several trades has a row in the sink, and the
\* last of them arrived only after an earlier batch was written.
C12_Witness ==
    /\ Cardinality(trades_raw) >= 2
    /\ SinkIds(trades_enriched) = {t.trade_id : t \in trades_raw}
    /\ \E r1 \in trades_enriched, r2 \in trades_enriched :
          r1.trade_id < r2.trade_id /\ r1.processed_at < r2.processed_at

\* The rows of POSITIONS_RAW for the key of trade t.
KeyPositions(t) ==
    {p \in positions_raw : p.account_id = t.account_id /\ p.symbol = t.symbol}

\* The row with the latest UPDATED_AT among a non-empty set of position rows.
LatestOf(rows) == CHOOSE p \in rows : \A q \in rows : q.updated_at <= p.updated_at

\* C13: when POSITIONS_RAW holds several rows for the key of a polled trade,
\* the append writes exactly one row for that trade, and its position
\* quantity and average cost are those of the row with the latest timestamp.
C13_LatestPositionOnly ==
    [][\A t \in StreamRows :
          (trades_enriched' # trades_enriched /\ Cardinality(KeyPositions(t)) >= 2)
              => LET written == {r \in trades_enriched' \ trades_enriched :
                                    r.trade_id = t.trade_id}
                 IN  /\ Cardinality(written) = 1
                     /\ \A r \in written :
                           /\ r.position_qty = Some(LatestOf(KeyPositions(t)).quantity)
                           /\ r.avg_cost = LatestOf(KeyPositions(t)).avg_cost
      ]_vars

\* C14: a polled trade whose key has no row in POSITIONS_RAW is written by the
\* append as exactly one row, with NULL position quantity and average cost,
\* realized P&L 0 and is_closing false.
C14_UnmatchedTradeKept ==
    [][\A t \in StreamRows :
          (pc = "write" /\ pc' = "return" /\ KeyPositions(t) = {})
              => LET written == {r \in trades_enriched' \ trades_enriched :
                                    r.trade_id = t.trade_id}
                 IN  /\ Cardinality(written) = 1
                     /\ \A r \in written :
                           /\ r.side = t.side /\ r.quantity = t.quantity
                           /\ r.price = t.price /\ r.symbol = t.symbol
                           /\ r.account_id = t.account_id
                           /\ IsNone(r.position_qty)
                           /\ IsNone(r.avg_cost)
                           /\ r.realized_pnl = Some(0)
                           /\ r.is_closing = FALSE
      ]_vars

\* C14 witness: the sink holds the row of a trade in the instrument without a
\* position, written with NULL position columns, next to a row that was
\* matched with a position.
C14_Witness ==
    \E r1 \in trades_enriched, r2 \in trades_enriched :
        /\ r1.symbol = "MSFT"
        /\ IsNone(r1.position_qty)
        /\ r1.realized_pnl = Some(0)
        /\ ~IsNone(r2.position_qty)
        /\ r1.processed_at = r2.processed_at

\* C15: main returns its status string only from its last line, carrying the
\* row_count counted in that call, and that line is reached only after a count
\* of 0 or after the append was done; a count or an append that fails ends
\* the call raised, never returned.
C15_StatusOnlyOnSuccess ==
    [][/\ (outcome' = "returned" /\ (outcome # "returned" \/ pc # "idle"))
            => /\ pc = "return"
               /\ pc' = "idle"
               /\ row_count >= 0
               /\ row_count' = row_count
       /\ (pc' = "return" /\ pc # "return")
            => \/ /\ pc = "idle"
                  /\ row_count' = 0
                  /\ StreamRows = {}
               \/ /\ pc = "write"
                  /\ row_count' = row_count
                  /\ row_count > 0
                  /\ trades_enriched' = trades_enriched \cup Enriched(now + 1)
                  /\ stream_offset' = Cardinality(trades_raw)
       /\ (CountFails \/ WriteFails)
            => /\ outcome' = "raised"
               /\ pc' = "idle"
       /\ pc' # "idle" => outcome' = "none"
      ]_vars

\* C15 witness: a call has returned with a row count of at least two, the rows
\* it appended.
C15_Witness ==
    /\ pc = "idle"
    /\ outcome = "returned"
    /\ row_count >= 2
    /\ Cardinality(trades_enriched) = row_count

\* C17: every step of the pipeline and of its environment keeps every row the
\* sink already holds, unchanged: a later cycle only adds rows, also after the
\* position of a written row's key was loaded anew.
C17_SinkAppendOnly ==
    [][trades_enriched \subseteq trades_enriched']_vars

\* C17 witness: a row written without a position is still in the sink after a
\* position for its key was loaded and a later cycle wrote a row with it.
C17_Witness ==
    \E r1, r2 \in trades_enriched :
        /\ r1.symbol = r2.symbol
        /\ r1.account_id = r2.account_id
        /\ IsNone(r1.position_qty)
        /\ ~IsNone(r2.position_qty)
        /\ r1.processed_at < r2.processed_at

C16_OneCycleInFlight ==
    ~(pc = "write" /\ script_pc = "write")

\* C19: a call of sp_enrich_trades.main that returns after an earlier call
\* returned, with TRADES_RAW and POSITIONS_RAW unchanged in between, reads
\* the same inputs and leaves the analytic table with the content it had.
C19_RebuildIdempotent ==
    [][(agg_runs' = agg_runs + 1 /\ agg_runs >= 1)
            => /\ demo_trades_enriched' = demo_trades_enriched
               /\ demo_trades_raw' = demo_trades_raw
               /\ demo_positions_raw' = demo_positions_raw]_vars

\* C19 witness: two calls in succession have returned over two trades and
\* two position rows, one of them without a price.
C19_Witness ==
    /\ agg_runs = 2
    /\ agg_outcome = "returned"
    /\ Cardinality(demo_trades_raw) = 2
    /\ Cardinality(demo_positions_raw) = 2
    /\ \E p \in demo_positions_raw : IsNone(p.current_price)
    /\ \E r \in BagToSet(demo_trades_enriched) : ~IsNone(r.avg_market_price)

\* C20: a call of sp_enrich_trades.main that returns leaves, for every trade
\* whose SYMBOL has no row in POSITIONS_RAW, exactly one row in the analytic
\* table, with the trade's columns and three NULL aggregates.
C20_UnmatchedTradeNullAggregates ==
    [][agg_runs' = agg_runs + 1
            => \A t \in demo_trades_raw :
                  (\A p \in demo_positions_raw : p.symbol # t.symbol)
                      => LET written == {r \in BagToSet(demo_trades_enriched') :
                                            r.trade_id = t.trade_id}
                         IN  /\ Cardinality(written) = 1
                             /\ \A r \in written :
                                   /\ CopiesIn(r, demo_trades_enriched') = 1
                                   /\ r = AggRow(t, None, None, None)]_vars

\* C20 witness: the analytic table holds a trade of the instrument without
\* positions, with NULL aggregates, next to a trade with aggregates.
C20_Witness ==
    /\ agg_outcome = "returned"
    /\ \E r1, r2 \in BagToSet(demo_trades_enriched) :
          /\ r1.symbol = "MSFT"
          /\ IsNone(r1.avg_market_price)
          /\ IsNone(r1.total_position_qty)
          /\ IsNone(r1.total_market_value)
          /\ ~IsNone(r2.total_position_qty)
          /\ ~IsNone(r2.avg_market_price)

\* The trade columns of a row of the analytic table.
TradeColumns(r) ==
    [trade_id |-> r.trade_id, account_id |-> r.account_id, symbol |-> r.symbol,
     trade_ts |-> r.trade_ts, side |-> r.side, quantity |-> r.quantity,
     price |-> r.price, amount |-> r.amount, exchange |-> r.exchange,
     status |-> r.status]

\* C21: a call of sp_enrich_trades.main that returns leaves the analytic table
\* with exactly one row for every row of TRADES_RAW and no other row, whatever
\* it held before and however many position rows share the trade's SYMBOL.
C21_RebuildTotalReplace ==
    [][agg_runs' = agg_runs + 1
            => /\ BagCardinality(demo_trades_enriched') = Cardinality(demo_trades_raw)
               /\ \A t \in demo_trades_raw :
                     \E r \in BagToSet(demo_trades_enriched') :
                         /\ TradeColumns(r) = t
                         /\ CopiesIn(r, demo_trades_enriched') = 1
               /\ \A r \in BagToSet(demo_trades_enriched') :
                     TradeColumns(r) \in demo_trades_raw]_vars

\* C21 witness: after a call returned, the table holds one row for each of two
\* trades of an instrument held by two accounts.
C21_Witness ==
    /\ agg_outcome = "returned"
    /\ agg_runs >= 1
    /\ Cardinality(demo_trades_raw) = 2
    /\ \A t \in demo_trades_raw : t.symbol = "AAPL"
    /\ \E p1, p2 \in demo_positions_raw : p1.account_id # p2.account_id
    /\ BagCardinality(demo_trades_enriched) = 2

\* The position rows of an instrument, over all accounts.
InstrumentRows(sy) == {p \in demo_positions_raw : p.symbol = sy}

\* The rows of a set that have a value in the column.
Valued(rows, column) == {p \in rows : ~IsNone(p[column])}

\* The total of a column over the rows that have a value: every value v
\* counted as often as it occurs.
RECURSIVE TotalUpTo(_, _, _)
TotalUpTo(rows, column, v) ==
    IF v = 0 THEN 0
    ELSE v * Cardinality({p \in rows : p[column] = Some(v)})
         + TotalUpTo(rows, column, v - 1)

\* No value of a column exceeds 4, a quantity of 2 at a price of 2.
ColumnTotal(rows, column) == TotalUpTo(rows, column, 4)

\* C22: a call of sp_enrich_trades.main that returns gives the row of every
\* trade whose SYMBOL occurs in POSITIONS_RAW the sum of QUANTITY, the sum of
\* MARKET_VALUE and the mean of CURRENT_PRICE (to within half a unit of the
\* result's scale) over all position rows of that SYMBOL that have a value,
\* whatever their account, and NULL where no row has one.
C22_AggregatesOverInstrument ==
    [][agg_runs' = agg_runs + 1
            => \A t \in demo_trades_raw :
                  InstrumentRows(t.symbol) # {}
                      => \E r \in BagToSet(demo_trades_enriched') :
                            LET rows == InstrumentRows(t.symbol)
                                priced == Valued(rows, "current_price")
                                n == Cardinality(priced)
                            IN  /\ TradeColumns(r) = t
                                /\ r.total_position_qty
                                       = Some(ColumnTotal(rows, "quantity"))
                                /\ r.total_market_value
                                       = IF Valued(rows, "market_value") = {} THEN None
                                         ELSE Some(ColumnTotal(rows, "market_value"))
                                /\ IF n = 0 THEN IsNone(r.avg_market_price)
                                   ELSE /\ ~IsNone(r.avg_market_price)
                                        /\ 2 * Abs(Val(r.avg_market_price) * n
                                                   - ColumnTotal(priced, "current_price")
                                                         * AvgScale) <= n]_vars

\* C22 witness: a trade's row carries the mean 1.5 of the prices 1 and 2 and
\* the total quantity of the positions two accounts hold in its instrument.
C22_Witness ==
    /\ agg_outcome = "returned"
    /\ \E p1, p2 \in demo_positions_raw :
          /\ p1.account_id # p2.account_id
          /\ p1.current_price = Some(1)
          /\ p2.current_price = Some(2)
          /\ \E r \in BagToSet(demo_trades_enriched) :
                /\ r.avg_market_price = Some(3 * (AvgScale \div 2))
                /\ r.total_position_qty
                       = Some(Val(p1.quantity) + Val(p2.quantity))
                /\ r.total_market_value
                       = Some(Val(p1.market_value) + Val(p2.market_value))

\* C23: a call of sp_enrich_trades.main, returning or failing, leaves the
\* stream's offset, the rows the stream holds, the rows the pipeline's query
\* yields and the pipeline's own position as they were.
C23_RebuildKeepsCursor ==
    [][(agg_runs' # agg_runs \/ agg_outcome' # agg_outcome
            \/ demo_trades_enriched' # demo_trades_enriched)
            => /\ stream_offset' = stream_offset
               /\ StreamRows' = StreamRows
               /\ Enriched(now)' = Enriched(now)
               /\ trades_enriched' = trades_enriched
               /\ pc' = pc]_vars

\* C23 witness: two calls of sp_enrich_trades.main have returned and filled
\* the analytic table, after one pipeline cycle consumed the stream and while
\* the stream holds a later trade for the next cycle.
C23_Witness ==
    /\ agg_runs = 2
    /\ agg_outcome = "returned"
    /\ demo_trades_enriched # EmptyBag
    /\ stream_offset > 0
    /\ StreamRows # {}
    /\ pc = "idle"

\* cleanup.py has ended without the go-ahead: no --confirm, or a declined prompt.
EndedWithoutGoAhead == cl_pc = "done" /\ (~cl_confirm \/ cl_answer = "no")

\* No statement was sent and every object is as it was.
Untouched == cl_issued = {} /\ cl_objects = DemoObjects /\ cl_suspended = {}

\* C24: cleanup.py sends a statement only with --confirm and an accepted
\* prompt, and a run that ends in dry-run mode or at a declined prompt has
\* left every object untouched, closed the session and exits with 0.
C24_NothingWithoutConfirm ==
    /\ cl_issued # {} => (cl_confirm /\ cl_answer = "yes")
    /\ EndedWithoutGoAhead
            => (Untouched /\ cl_session = "closed" /\ cl_exit = Some(0))

\* C24, amended: cleanup.py sends a statement only with --confirm and an
\* accepted prompt; a run without the go-ahead leaves every object untouched,
\* and, if it connected, has closed the session and exits with 0; if it could
\* not connect there is no session and it exits with 1.
C24_NothingWithoutConfirmIfConnected ==
    /\ cl_issued # {} => (cl_confirm /\ cl_answer = "yes")
    /\ EndedWithoutGoAhead
            => /\ Untouched
               /\ cl_session \in {"none", "closed"}
               /\ cl_session = "closed" => cl_exit = Some(0)
               /\ cl_session = "none" => cl_exit = Some(1)

\* C24 witness: a dry run has gone through every object's statements and ended.
C24_Witness ==
    /\ cl_pc = "done"
    /\ ~cl_confirm
    /\ cl_i = Len(CleanupPlan) + 1
    /\ cl_session = "closed"
    /\ cl_exit = Some(0)

\* C25: every row of the sink carries in REALIZED_PNL and IS_CLOSING the pair
\* calculate_realized_pnl returns for the row's side, quantity, price,
\* position_qty and avg_cost.
C25_ColumnsEqualPnlFunction ==
    \A r \in trades_enriched :
        LET pair == calculate_realized_pnl(r.side, r.quantity, r.price,
                                           r.position_qty, r.avg_cost)
        IN  /\ r.realized_pnl = Some(pair[1])
            /\ r.is_closing = pair[2]

\* C26: for the arguments of every call, absent values included, the copy of
\* calculate_realized_pnl in the test module returns the pair the function
\* of sp_transform_trades.py returned.
C26_TestCopyMirrors ==
    Returned => ret = test_calculate_realized_pnl(args.side, args.quantity, args.price,
                                                  args.position_qty, args.avg_cost)

\* C26 witness: a BUY larger than the short position it meets, whose cost is
\* absent, has returned.
C26_Witness ==
    /\ Returned
    /\ args.side = "BUY"
    /\ ~IsNone(args.position_qty)
    /\ Val(args.position_qty) < 0
    /\ args.quantity > Abs(Val(args.position_qty))
    /\ IsNone(args.avg_cost)
    /\ ret = <<0, FALSE>>

\* The rows of one trade against the position table alone.
RowsAgainstSnapshot(t, processed_at) ==
    IF KeyPositions(t) = {}
    THEN {EnrichedRow(t, None, None, processed_at)}
    ELSE {EnrichedRow(t, Some(p.quantity), p.avg_cost, processed_at) :
             p \in KeyPositions(t)}

\* C27: the rows an append writes for a trade of the batch are those of that
\* trade against POSITIONS_RAW as it is before the append, whatever other
\* trades the batch holds, and the append leaves POSITIONS_RAW as it is; a
\* position of 200 at 180 gives a SELL of 50 at 185 the P&L 250 and a SELL of
\* 300 at 185 the P&L 1000.
C27_BatchTradesIndependent ==
    /\ SqlRealizedPnl("SELL", 50, 185, Some(200), Some(180)) = Some(250)
    /\ SqlRealizedPnl("SELL", 300, 185, Some(200), Some(180)) = Some(1000)
    /\ [][trades_enriched' # trades_enriched
            => /\ positions_raw' = positions_raw
               /\ \A t \in StreamRows :
                     {r \in trades_enriched' \ trades_enriched : r.trade_id = t.trade_id}
                         = RowsAgainstSnapshot(t, now')]_vars

\* C27 witness: one append wrote two SELLs on the same key, the smaller one
\* first, and both rows show the position of 2 at 2: P&L 1 for the SELL of 1,
\* P&L 2 for the SELL of 3.
C27_Witness ==
    \E r1, r2 \in trades_enriched :
        /\ r1.trade_id < r2.trade_id
        /\ r1.processed_at = r2.processed_at
        /\ r1.account_id = r2.account_id /\ r1.symbol = r2.symbol
        /\ r1.side = "SELL" /\ r1.quantity = 1
        /\ r2.side = "SELL" /\ r2.quantity = 3
        /\ r1.position_qty = Some(2) /\ r2.position_qty = Some(2)
        /\ r1.realized_pnl = Some(1)
        /\ r2.realized_pnl = Some(2)

\* C28: the append of a cycle writes as many rows as the cycle counted, the
\* number its status string reports, also when trades were inserted or
\* positions loaded between the count and the append.
C28_ReportedCountIsAppended ==
    [][(pc = "write" /\ pc' = "return")
            => Cardinality(trades_enriched' \ trades_enriched) = row_count]_vars

\* The CheckResults of all_results.
VerifyResults == {sv_all_results[i] : i \in 1..Len(sv_all_results)}

\* Every item of every check function has its result in all_results.
EveryCheckRecorded ==
    \A k \in 1..Len(VerifyPlan) :
        \A i \in 1..VerifyPlan[k].items :
            \E r \in VerifyResults : r.check = VerifyPlan[k].check /\ r.item = i

\* C29: setup_verify.main ends with exit code 0 exactly when it connected and
\* every item of every check has a result that passed; a query that raised
\* gives failed results and the later checks still run; a task's result
\* passes only if the task is "started"; and once opened the session is
\* closed when main ends.
C29_ExitZeroIffAllPassed ==
    /\ sv_pc = "done"
            => (sv_exit = Some(0)
                    <=> /\ sv_session # "none"
                        /\ EveryCheckRecorded
                        /\ \A r \in VerifyResults : r.passed)
    /\ \A r \in VerifyResults : r.details = "error" => ~r.passed
    /\ (sv_pc \in {"report", "done"} /\ sv_session # "none") => EveryCheckRecorded
    /\ \A r \in VerifyResults :
            (r.check = "tasks" /\ r.passed) => sv_task_state[r.item] = "started"
    /\ (sv_pc \in {"report", "done"} /\ sv_session # "none") => sv_session = "closed"
    /\ sv_pc = "done" => sv_exit \in {Some(0), Some(1)}

\* C29 witness: main has ended with exit code 1 after a table query raised
\* and a task was found suspended, with the data checks after them recorded.
C29_Witness ==
    /\ sv_pc = "done"
    /\ sv_exit = Some(1)
    /\ sv_session = "closed"
    /\ \E r \in VerifyResults : r.check = "tables" /\ r.details = "error"
    /\ \E r \in VerifyResults : r.check = "tasks" /\ r.details = "not running"
    /\ \E r \in VerifyResults : r.check = "data" /\ r.passed

\* C30: a call of a position generator, whatever its num_rows, comes to its
\* return with exactly num_rows rows, no two of them with the same
\* (symbol, account_id).
C30_GeneratorReturnsDistinctRows ==
    <>(/\ gen_pc = "done"
       /\ Len(gen_data) = gen_num_rows
       /\ \A i, j \in 1..Len(gen_data) : gen_data[i] = gen_data[j] => i = j)

====
